---- MODULE Spec2Model ----
(***************************************************************************)
(* deep-diffs: cumulative change markers across a chain of text revisions  *)
(* (src/src/deep-diff.js).  Strings are sequences of UTF-16 code units,    *)
(* each code unit written as a one-element TLA+ string; "HI" and "LO"      *)
(* stand for a high and a low surrogate code unit.  A marker is a record   *)
(* [id, start, end, enabled]; id is the identity of the JavaScript object  *)
(* (its ordinal of creation in the call), which no code reads.             *)
(***************************************************************************)
EXTENDS Integers, Sequences, FiniteSets, TLC

VARIABLES
    pc,        \* "call": computeDeepDiff entered; "run": inside its loop;
               \* "returned"; "rendered"
    revisions, \* the revision list handed to computeDeepDiff
    texts,     \* the list after trimming and filtering
    dmp,       \* the settings of the call's diff engine instance
    text,      \* texts[i]: the revision the markers currently refer to
    markers,   \* the accumulated marker list of computeDeepDiff
    diffs,     \* the op sequence of the last pass
    old,       \* the marker list as it was when the last pass began
    npass,     \* number of passes run so far
    returned,  \* the marker list handed to the caller / to renderWithMarkers
    options,   \* the options object: tagName and className, and the properties
               \* skipEmpty, timeout, ... that the caller chose to set
    result     \* the string renderWithMarkers returned

vars == <<pc, revisions, texts, dmp, text, markers, diffs, old, npass, returned,
          options, result>>

\* ------------------------------------------------------------------ bounds

MaxLen == 4          \* longest revision text of the revision driver
MaxOps == 3          \* longest op sequence the diff engine returns
MaxPasses == 3       \* passes of one computeDeepDiff call
MaxRenderLen == 3    \* longest text handed directly to renderWithMarkers
MaxMarkers == 2      \* longest marker list handed directly to renderWithMarkers
MaxRawLen == 3       \* longest untrimmed revision handed to computeDeepDiff
MaxRevisions == 3    \* longest revision list handed to computeDeepDiff
MaxAgainLen == 1     \* longest untrimmed revision, when calls follow one another

\* ---------------------------------------------------------------- strings

DIFF_DELETE == -1
DIFF_INSERT == 1
DIFF_EQUAL == 0

\* code units of the first revision, and of the text a pass inserts (a unit that
\* escapeHtml rewrites, so that rendering an insertion exercises the escaping)
DriverUnits == {"a"}
InsertedUnits == {"&"}

\* code units of the untrimmed revisions handed to computeDeepDiff
RawUnits == {" ", "a"}

\* the code units String.prototype.trim removes, among those of the model
WhiteSpace == {" "}

\* code units of the texts handed directly to renderWithMarkers
RenderUnits == {"a", "&", "<", ">", "\"", "HI", "LO"}

RECURSIVE Strings(_, _)
Strings(units, n) ==
    IF n = 0 THEN {<<>>}
    ELSE {<<>>} \cup {<<u>> \o s : u \in units, s \in Strings(units, n - 1)}

\* s.slice(from, to) for 0 <= from: code units from+1 .. to of the 1-based sequence
Slice(s, from, to) ==
    LET hi == IF to > Len(s) THEN Len(s) ELSE to
    IN  IF from >= hi THEN <<>> ELSE SubSeq(s, from + 1, hi)

RECURSIVE Concat(_)
Concat(ss) == IF ss = <<>> THEN <<>> ELSE Head(ss) \o Concat(Tail(ss))

\* ----------------------------------------------------------------- Marker

NewMarker(id, start, end) == [id |-> id, start |-> start, end |-> end, enabled |-> TRUE]

MLength(m) == m.end - m.start + 1

shift(m, delta) == [m EXCEPT !.start = @ + delta, !.end = @ + delta]

expand(m, delta) == [m EXCEPT !.end = @ + delta]

\* mutant: a marker contracted to one character is disabled as well
contractDisablesAtOne(m, delta) ==
    LET m2 == [m EXCEPT !.end = @ - delta]
    IN  IF MLength(m2) <= 1 THEN [m2 EXCEPT !.enabled = FALSE] ELSE m2

contract(m, delta) ==
    LET m2 == [m EXCEPT !.end = @ - delta]
    IN  IF MLength(m2) <= 0 THEN [m2 EXCEPT !.enabled = FALSE] ELSE m2

\* ------------------------------------------------------- transformMarkers

\* markers.sort((a, b) => a.start - b.start): Array.prototype.sort is stable
RECURSIVE InsertByStart(_, _)
InsertByStart(m, sorted) ==
    IF sorted = <<>> THEN <<m>>
    ELSE IF m.start < Head(sorted).start THEN <<m>> \o sorted
    ELSE <<Head(sorted)>> \o InsertByStart(m, Tail(sorted))

RECURSIVE SortByStart(_)
SortByStart(ms) ==
    IF ms = <<>> THEN <<>>
    ELSE LET n == Len(ms)
         IN  InsertByStart(ms[n], SortByStart(SubSeq(ms, 1, n - 1)))

\* mutant: an insertion inside the marker does not expand it
InsertStepNoExpand(m, index, len) ==
    IF index <= m.start THEN shift(m, len) ELSE m

\* mutant: an insertion exactly at the marker's start expands instead of shifting
InsertStepStrict(m, index, len) ==
    IF index < m.start THEN shift(m, len)
    ELSE IF index >= m.start /\ index <= m.end THEN expand(m, len)
    ELSE m

\* mutant: an insertion directly behind the marker's last character expands it
InsertStepPastEnd(m, index, len) ==
    IF index <= m.start THEN shift(m, len)
    ELSE IF index > m.start /\ index <= m.end + 1 THEN expand(m, len)
    ELSE m

\* mutant: an insertion inside the marker shifts the marker instead of expanding it
InsertStepShiftsInside(m, index, len) ==
    IF index <= m.end THEN shift(m, len) ELSE m

\* one op of the inner loop, for one marker: st = [m, index]
InsertStep(m, index, len) ==
    IF index <= m.start THEN shift(m, len)
    ELSE IF index > m.start /\ index <= m.end THEN expand(m, len)
    ELSE m

\* mutant: a deletion that covers the whole marker leaves it enabled
DeleteStepKeepsCovered(m, index, len) ==
    LET delEnd == index + len - 1
    IN  IF delEnd < m.start THEN shift(m, 0 - len)
        ELSE IF index > m.end THEN m
        ELSE IF index <= m.start /\ delEnd >= m.end THEN m
        ELSE IF index <= m.start /\ delEnd < m.end THEN
            contract(shift(m, 0 - (m.start - index)), delEnd - m.start + 1)
        ELSE IF index > m.start /\ delEnd >= m.end THEN contract(m, m.end - index + 1)
        ELSE contract(m, len)

\* mutant: a deletion in front of the marker does not shift it left
DeleteStepNoShiftLeft(m, index, len) ==
    LET delEnd == index + len - 1
    IN  IF delEnd < m.start THEN m
        ELSE IF index > m.end THEN m
        ELSE IF index <= m.start /\ delEnd >= m.end THEN [m EXCEPT !.enabled = FALSE]
        ELSE IF index <= m.start /\ delEnd < m.end THEN
            contract(shift(m, 0 - (m.start - index)), delEnd - m.start + 1)
        ELSE IF index > m.start /\ delEnd >= m.end THEN contract(m, m.end - index + 1)
        ELSE contract(m, len)

\* mutant: the overlap is computed from the bounds after the shift
DeleteStepOverlapAfterShift(m, index, len) ==
    LET delEnd == index + len - 1
    IN  IF delEnd < m.start THEN shift(m, 0 - len)
        ELSE IF index > m.end THEN m
        ELSE IF index <= m.start /\ delEnd >= m.end THEN [m EXCEPT !.enabled = FALSE]
        ELSE IF index <= m.start /\ delEnd < m.end THEN
            LET shifted == shift(m, 0 - (m.start - index))
            IN  contract(shifted, delEnd - shifted.start + 1)
        ELSE IF index > m.start /\ delEnd >= m.end THEN contract(m, m.end - index + 1)
        ELSE contract(m, len)

\* mutant: a deletion that runs over the marker's end contracts by the span length
DeleteStepTailByLen(m, index, len) ==
    LET delEnd == index + len - 1
    IN  IF delEnd < m.start THEN shift(m, 0 - len)
        ELSE IF index > m.end THEN m
        ELSE IF index <= m.start /\ delEnd >= m.end THEN [m EXCEPT !.enabled = FALSE]
        ELSE IF index <= m.start /\ delEnd < m.end THEN
            contract(shift(m, 0 - (m.start - index)), delEnd - m.start + 1)
        ELSE contract(m, len)

DeleteStep(m, index, len) ==
    LET delEnd == index + len - 1
    IN  IF delEnd < m.start THEN shift(m, 0 - len)
        ELSE IF index > m.end THEN m
        ELSE IF index <= m.start /\ delEnd >= m.end THEN [m EXCEPT !.enabled = FALSE]
        ELSE IF index <= m.start /\ delEnd < m.end THEN
            LET preOverlap == m.start - index
                overlap == delEnd - m.start + 1
            IN  contract(shift(m, 0 - preOverlap), overlap)
        ELSE IF index > m.start /\ delEnd >= m.end THEN
            LET overlap == m.end - index + 1
            IN  contract(m, overlap)
        ELSE contract(m, len)

\* mutant: the cursor advances over a Deleted span as well
OpStepDeleteAdvances(st, d) ==
    LET len == Len(d[2])
    IN  IF d[1] = DIFF_INSERT THEN
            [m |-> InsertStep(st.m, st.index, len), index |-> st.index + len]
        ELSE IF d[1] = DIFF_DELETE THEN
            [m |-> DeleteStep(st.m, st.index, len), index |-> st.index + len]
        ELSE [m |-> st.m, index |-> st.index + len]

OpStep(st, d) ==
    LET len == Len(d[2])
    IN  IF d[1] = DIFF_INSERT THEN
            [m |-> InsertStep(st.m, st.index, len), index |-> st.index + len]
        ELSE IF d[1] = DIFF_DELETE THEN
            [m |-> DeleteStep(st.m, st.index, len), index |-> st.index]
        ELSE [m |-> st.m, index |-> st.index + len]

\* the state of the inner loop after the first k ops
RECURSIVE Walk(_, _, _)
Walk(m, ds, k) ==
    IF k = 0 THEN [m |-> m, index |-> 0]
    ELSE OpStep(Walk(m, ds, k - 1), ds[k])

\* mutant: the cursor is not reset for each marker: one marker's walk begins where
\* the walk of the marker before it ended
RECURSIVE WalkFrom(_, _, _, _)
WalkFrom(m, ds, k, index) ==
    IF k = 0 THEN [m |-> m, index |-> index]
    ELSE OpStep(WalkFrom(m, ds, k - 1, index), ds[k])

RECURSIVE TransformShared(_, _, _)
TransformShared(sorted, ds, index) ==
    IF sorted = <<>> THEN <<>>
    ELSE IF ~Head(sorted).enabled THEN <<Head(sorted)>> \o TransformShared(Tail(sorted), ds, index)
    ELSE LET st == WalkFrom(Head(sorted), ds, Len(ds), index)
         IN  <<st.m>> \o TransformShared(Tail(sorted), ds, st.index)

transformMarkersSharedCursor(ms, ds) == TransformShared(SortByStart(ms), ds, 0)

\* mutant: disabled markers are walked over the ops like enabled ones
transformMarkersWalksDisabled(ms, ds) ==
    LET sorted == SortByStart(ms)
    IN  [i \in DOMAIN sorted |-> Walk(sorted[i], ds, Len(ds)).m]

transformMarkers(ms, ds) ==
    LET sorted == SortByStart(ms)
    IN  [i \in DOMAIN sorted |->
            IF ~sorted[i].enabled THEN sorted[i]
            ELSE Walk(sorted[i], ds, Len(ds)).m]

\* ---------------------------------------------------- addInsertionMarkers

RECURSIVE AddFrom(_, _, _, _)
AddFrom(ms, ds, k, index) ==
    IF k > Len(ds) THEN ms
    ELSE LET len == Len(ds[k][2])
         IN  IF ds[k][1] = DIFF_INSERT THEN
                 AddFrom(Append(ms, NewMarker(Len(ms) + 1, index, index + len - 1)),
                         ds, k + 1, index + len)
             ELSE IF ds[k][1] = DIFF_EQUAL THEN AddFrom(ms, ds, k + 1, index + len)
             ELSE AddFrom(ms, ds, k + 1, index)

\* mutant: the cursor also advances over Deleted spans
RECURSIVE AddFromCountingDeleted(_, _, _, _)
AddFromCountingDeleted(ms, ds, k, index) ==
    IF k > Len(ds) THEN ms
    ELSE LET len == Len(ds[k][2])
         IN  IF ds[k][1] = DIFF_INSERT THEN
                 AddFromCountingDeleted(
                     Append(ms, NewMarker(Len(ms) + 1, index, index + len - 1)),
                     ds, k + 1, index + len)
             ELSE AddFromCountingDeleted(ms, ds, k + 1, index + len)

addInsertionMarkersCountingDeleted(ms, ds) == AddFromCountingDeleted(ms, ds, 1, 0)

\* mutant: a marker is appended for every span of the new revision, Kept or Inserted
RECURSIVE AddFromForKept(_, _, _, _)
AddFromForKept(ms, ds, k, index) ==
    IF k > Len(ds) THEN ms
    ELSE LET len == Len(ds[k][2])
         IN  IF ds[k][1] # DIFF_DELETE THEN
                 AddFromForKept(Append(ms, NewMarker(Len(ms) + 1, index, index + len - 1)),
                                ds, k + 1, index + len)
             ELSE AddFromForKept(ms, ds, k + 1, index)

addInsertionMarkersForKept(ms, ds) == AddFromForKept(ms, ds, 1, 0)

\* mutant: the marker ends one character behind its Inserted span
RECURSIVE AddFromEndPastSpan(_, _, _, _)
AddFromEndPastSpan(ms, ds, k, index) ==
    IF k > Len(ds) THEN ms
    ELSE LET len == Len(ds[k][2])
         IN  IF ds[k][1] = DIFF_INSERT THEN
                 AddFromEndPastSpan(Append(ms, NewMarker(Len(ms) + 1, index, index + len)),
                                    ds, k + 1, index + len)
             ELSE IF ds[k][1] = DIFF_EQUAL THEN AddFromEndPastSpan(ms, ds, k + 1, index + len)
             ELSE AddFromEndPastSpan(ms, ds, k + 1, index)

addInsertionMarkersEndPastSpan(ms, ds) == AddFromEndPastSpan(ms, ds, 1, 0)

addInsertionMarkers(ms, ds) == AddFrom(ms, ds, 1, 0)

\* ------------------------------------------------------------ diff engine

\* The op sequences the diff engine may return for the old text `rest`: every
\* sequence of at most k non-empty spans whose Kept and Deleted texts
\* concatenate to `rest`, the new text being at most `budget` long.
RECURSIVE ValidDiffs(_, _, _)
ValidDiffs(rest, budget, k) ==
    LET n == Len(rest)
        suffix(L) == SubSeq(rest, L + 1, n)
        span(op, s) == <<(<<op, s>>)>>
    IN  (IF rest = <<>> THEN {<<>>} ELSE {})
        \cup
        (IF k = 0 THEN {}
         ELSE UNION {{span(DIFF_EQUAL, SubSeq(rest, 1, L)) \o t :
                        t \in ValidDiffs(suffix(L), budget - L, k - 1)} :
                     L \in {x \in 1..n : x <= budget}}
              \cup
              UNION {{span(DIFF_DELETE, SubSeq(rest, 1, L)) \o t :
                        t \in ValidDiffs(suffix(L), budget, k - 1)} :
                     L \in 1..n}
              \cup
              UNION {{span(DIFF_INSERT, s) \o t :
                        t \in ValidDiffs(rest, budget - Len(s), k - 1)} :
                     s \in Strings(InsertedUnits, budget) \ {<<>>}})

\* The op sequences the diff engine may return for the pair (a, b): every sequence
\* of at most k non-empty spans whose Kept and Deleted texts concatenate to a and
\* whose Kept and Inserted texts concatenate to b.
RECURSIVE DiffsBetween(_, _, _)
DiffsBetween(a, b, k) ==
    LET rest(s, L) == SubSeq(s, L + 1, Len(s))
        span(op, s) == <<(<<op, s>>)>>
        common == {L \in 1..Len(a) : L <= Len(b) /\ SubSeq(a, 1, L) = SubSeq(b, 1, L)}
    IN  (IF a = <<>> /\ b = <<>> THEN {<<>>} ELSE {})
        \cup
        (IF k = 0 THEN {}
         ELSE UNION {{span(DIFF_EQUAL, SubSeq(a, 1, L)) \o t :
                        t \in DiffsBetween(rest(a, L), rest(b, L), k - 1)} :
                     L \in common}
              \cup
              UNION {{span(DIFF_DELETE, SubSeq(a, 1, L)) \o t :
                        t \in DiffsBetween(rest(a, L), b, k - 1)} :
                     L \in 1..Len(a)}
              \cup
              UNION {{span(DIFF_INSERT, SubSeq(b, 1, L)) \o t :
                        t \in DiffsBetween(a, rest(b, L), k - 1)} :
                     L \in 1..Len(b)})

\* texts[i] as the diff engine's contract gives it: the Kept and Inserted texts
RECURSIVE NewText(_)
NewText(ds) ==
    IF ds = <<>> THEN <<>>
    ELSE (IF Head(ds)[1] = DIFF_DELETE THEN <<>> ELSE Head(ds)[2]) \o NewText(Tail(ds))

\* ------------------------------------------------------------ escapeHtml

\* str.replace(/u/g, rep) for a one-unit pattern u
RECURSIVE ReplaceAll(_, _, _)
ReplaceAll(str, u, rep) ==
    IF str = <<>> THEN <<>>
    ELSE (IF Head(str) = u THEN rep ELSE <<Head(str)>>) \o ReplaceAll(Tail(str), u, rep)

AMP == <<"&", "a", "m", "p", ";">>
LT == <<"&", "l", "t", ";">>
GT == <<"&", "g", "t", ";">>
QUOT == <<"&", "q", "u", "o", "t", ";">>

\* mutant: '&' is replaced last, so the entities of the other three are escaped again
escapeHtmlAmpLast(str) ==
    ReplaceAll(ReplaceAll(ReplaceAll(ReplaceAll(str, "<", LT), ">", GT), "\"", QUOT), "&", AMP)

escapeHtml(str) ==
    ReplaceAll(ReplaceAll(ReplaceAll(ReplaceAll(str, "&", AMP), "<", LT), ">", GT), "\"", QUOT)

\* ----------------------------------------------------- renderWithMarkers

\* [...text]: the string split into code points; a high surrogate directly
\* followed by a low surrogate is one element of two code units
RECURSIVE Spread(_)
Spread(str) ==
    IF str = <<>> THEN <<>>
    ELSE IF Len(str) >= 2 /\ str[1] = "HI" /\ str[2] = "LO"
         THEN <<SubSeq(str, 1, 2)>> \o Spread(SubSeq(str, 3, Len(str)))
         ELSE <<SubSeq(str, 1, 1)>> \o Spread(Tail(str))

openTag(opts) ==
    IF opts.className # <<>>
    THEN <<"<">> \o opts.tagName \o <<" ", "c", "l", "a", "s", "s", "=", "\"">>
            \o opts.className \o <<"\"", ">">>
    ELSE <<"<">> \o opts.tagName \o <<">">>

closeTag(opts) == <<"<", "/">> \o opts.tagName \o <<">">>

\* mutant: the close event sits at the marker's last index instead of behind it
RECURSIVE EventsCloseAtEnd(_)
EventsCloseAtEnd(active) ==
    IF active = <<>> THEN <<>>
    ELSE <<[index |-> Head(active).start, type |-> "open"],
           [index |-> Head(active).end, type |-> "close"]>> \o EventsCloseAtEnd(Tail(active))

\* the boundary events, in the order of the pushes
RECURSIVE Events(_)
Events(active) ==
    IF active = <<>> THEN <<>>
    ELSE <<[index |-> Head(active).start, type |-> "open"],
           [index |-> Head(active).end + 1, type |-> "close"]>> \o Events(Tail(active))

\* the comparator handed to events.sort
compareEvents(a, b) ==
    IF a.index # b.index THEN a.index - b.index
    ELSE IF a.type = "close" THEN 0 - 1 ELSE 1

RECURSIVE InsertEvent(_, _)
InsertEvent(e, sorted) ==
    IF sorted = <<>> THEN <<e>>
    ELSE IF compareEvents(e, Head(sorted)) < 0 THEN <<e>> \o sorted
    ELSE <<Head(sorted)>> \o InsertEvent(e, Tail(sorted))

RECURSIVE SortEvents(_)
SortEvents(es) ==
    IF es = <<>> THEN <<>>
    ELSE LET n == Len(es)
         IN  InsertEvent(es[n], SortEvents(SubSeq(es, 1, n - 1)))

\* mutant: the tag is emitted only when text was flushed in front of it
RECURSIVE SweepTagWithFlush(_, _, _, _)
SweepTagWithFlush(chars, es, opts, k) ==
    IF k = 0 THEN [result |-> <<>>, pos |-> 0]
    ELSE LET st == SweepTagWithFlush(chars, es, opts, k - 1)
             e == es[k]
         IN  IF e.index > st.pos
             THEN [result |-> st.result
                       \o escapeHtml(Concat(Slice(chars, st.pos, e.index)))
                       \o (IF e.type = "open" THEN openTag(opts) ELSE closeTag(opts)),
                   pos |-> e.index]
             ELSE st

\* mutant: the tag of an event is emitted in front of the text up to the event
RECURSIVE SweepTagBeforeFlush(_, _, _, _)
SweepTagBeforeFlush(chars, es, opts, k) ==
    IF k = 0 THEN [result |-> <<>>, pos |-> 0]
    ELSE LET st == SweepTagBeforeFlush(chars, es, opts, k - 1)
             e == es[k]
             tag == IF e.type = "open" THEN openTag(opts) ELSE closeTag(opts)
         IN  IF e.index > st.pos
             THEN [result |-> st.result \o tag
                       \o escapeHtml(Concat(Slice(chars, st.pos, e.index))),
                   pos |-> e.index]
             ELSE [result |-> st.result \o tag, pos |-> st.pos]

\* the sweep over the first k sorted events: st = [result, pos]
RECURSIVE Sweep(_, _, _, _)
Sweep(chars, es, opts, k) ==
    IF k = 0 THEN [result |-> <<>>, pos |-> 0]
    ELSE LET st == Sweep(chars, es, opts, k - 1)
             e == es[k]
             flushed == IF e.index > st.pos
                        THEN [result |-> st.result
                                  \o escapeHtml(Concat(Slice(chars, st.pos, e.index))),
                              pos |-> e.index]
                        ELSE st
         IN  [result |-> flushed.result
                  \o (IF e.type = "open" THEN openTag(opts) ELSE closeTag(opts)),
              pos |-> flushed.pos]

\* mutant: the text behind the last event is appended without escaping
renderWithMarkersRawTail(txt, ms, opts) ==
    LET activeMarkers == SelectSeq(ms, LAMBDA m : m.enabled)
        events == SortEvents(Events(activeMarkers))
        chars == Spread(txt)
        st == Sweep(chars, events, opts, Len(events))
    IN  IF Len(activeMarkers) = 0 THEN escapeHtml(txt)
        ELSE IF st.pos < Len(chars)
             THEN st.result \o Concat(Slice(chars, st.pos, Len(chars)))
             ELSE st.result

\* mutant: the disabled markers are not filtered out
renderWithMarkersAllMarkers(txt, ms, opts) ==
    LET events == SortEvents(Events(ms))
        chars == Spread(txt)
        st == Sweep(chars, events, opts, Len(events))
    IN  IF Len(ms) = 0 THEN escapeHtml(txt)
        ELSE IF st.pos < Len(chars)
             THEN st.result \o escapeHtml(Concat(Slice(chars, st.pos, Len(chars))))
             ELSE st.result

\* mutant: without an enabled marker the text is returned as it is
renderWithMarkersRawWhenNone(txt, ms, opts) ==
    LET activeMarkers == SelectSeq(ms, LAMBDA m : m.enabled)
        events == SortEvents(Events(activeMarkers))
        chars == Spread(txt)
        st == Sweep(chars, events, opts, Len(events))
    IN  IF Len(activeMarkers) = 0 THEN txt
        ELSE IF st.pos < Len(chars)
             THEN st.result \o escapeHtml(Concat(Slice(chars, st.pos, Len(chars))))
             ELSE st.result

renderWithMarkers(txt, ms, opts) ==
    LET activeMarkers == SelectSeq(ms, LAMBDA m : m.enabled)
        events == SortEvents(Events(activeMarkers))
        chars == Spread(txt)
        st == Sweep(chars, events, opts, Len(events))
    IN  IF Len(activeMarkers) = 0 THEN escapeHtml(txt)
        ELSE IF st.pos < Len(chars)
             THEN st.result \o escapeHtml(Concat(Slice(chars, st.pos, Len(chars))))
             ELSE st.result

\* ------------------------------------------------------- computeDeepDiff

\* an options object that names no option of computeDeepDiff
DefaultOptions == [tagName |-> <<"i", "n", "s">>,
                   className |-> <<"d", "e", "e", "p", "-", "d", "i", "f", "f">>]

\* const { skipEmpty = true, timeout = 1 } = options: a missing property takes
\* the default, a property that is present keeps its value
skipEmptyOf(opts) == IF "skipEmpty" \in DOMAIN opts THEN opts.skipEmpty ELSE TRUE

\* mutant: timeout || 1, which replaces a timeout of 0 as well
timeoutOfOrDefault(opts) ==
    IF "timeout" \in DOMAIN opts /\ opts.timeout # 0 THEN opts.timeout ELSE 1

timeoutOf(opts) == IF "timeout" \in DOMAIN opts THEN opts.timeout ELSE 1

\* new DiffMatchPatch() with the two settings the call assigns
newDmp(opts) == [Diff_Timeout |-> timeoutOf(opts), Diff_EditCost |-> 4]

\* String.prototype.trim
RECURSIVE trimStart(_)
trimStart(s) ==
    IF s # <<>> /\ Head(s) \in WhiteSpace THEN trimStart(Tail(s)) ELSE s

RECURSIVE trimEnd(_)
trimEnd(s) ==
    IF s # <<>> /\ s[Len(s)] \in WhiteSpace THEN trimEnd(SubSeq(s, 1, Len(s) - 1)) ELSE s

\* mutant: only the leading white space is removed
trimLeadingOnly(s) == trimStart(s)

trim(s) == trimEnd(trimStart(s))

\* mutant: the empty revisions are never dropped
normalizeKeepsEmpty(revs, opts) == [i \in DOMAIN revs |-> trim(revs[i])]

\* revisions.map(r => r.trim()).filter(r => !skipEmpty || r.length > 0)
normalize(revs, opts) ==
    LET trimmed == [i \in DOMAIN revs |-> trim(revs[i])]
    IN  SelectSeq(trimmed, LAMBDA t : ~skipEmptyOf(opts) \/ Len(t) > 0)

\* The call at the head of its loop, under default options.  The revisions come
\* one per pass, each any text the diff engine can reach from the one before; the
\* list itself is not recorded (revisions and texts stay empty).
Init ==
    /\ pc = "run"
    /\ revisions = <<>>
    /\ texts = <<>>
    /\ dmp = newDmp(DefaultOptions)
    /\ text \in Strings(DriverUnits, MaxLen)
    /\ markers = <<>>
    /\ diffs = <<>>
    /\ old = <<>>
    /\ npass = 0
    /\ returned = <<>>
    /\ options = DefaultOptions
    /\ result = <<>>

\* mutant: the markers of the pass are appended before the list is transformed
IterateAddFirst(ds) ==
    /\ diffs' = ds
    /\ text' = NewText(ds)
    /\ old' = markers
    /\ markers' = transformMarkers(addInsertionMarkers(markers, ds), ds)
    /\ npass' = npass + 1
    /\ UNCHANGED <<pc, revisions, texts, dmp, returned, options, result>>

\* the body of the loop over revision pairs, for the op sequence ds of the pair
Iterate(ds) ==
    /\ diffs' = ds
    /\ text' = NewText(ds)
    /\ old' = markers
    /\ markers' = addInsertionMarkers(transformMarkers(markers, ds), ds)
    /\ npass' = npass + 1
    /\ UNCHANGED <<pc, revisions, texts, dmp, returned, options, result>>

\* one iteration of the loop, the next revision being any text the diff engine
\* can reach from the current one
Pass ==
    /\ pc = "run"
    /\ npass < MaxPasses
    /\ \E ds \in ValidDiffs(text, MaxLen, MaxOps) : Iterate(ds)

\* mutant: the whole accumulated list is returned
ReturnAll ==
    /\ pc = "run"
    /\ pc' = "returned"
    /\ returned' = markers
    /\ UNCHANGED <<revisions, texts, dmp, text, markers, diffs, old, npass, options, result>>

Return ==
    /\ pc = "run"
    /\ pc' = "returned"
    /\ returned' = SelectSeq(markers, LAMBDA m : m.enabled)
    /\ UNCHANGED <<revisions, texts, dmp, text, markers, diffs, old, npass, options, result>>

\* mutant: the caller's marker list is sorted by start in place before the events
\* are gathered
RenderSortsMarkers ==
    /\ pc = "returned"
    /\ pc' = "rendered"
    /\ returned' = SortByStart(returned)
    /\ result' = renderWithMarkers(text, returned', options)
    /\ UNCHANGED <<revisions, texts, dmp, text, markers, diffs, old, npass, options>>

\* renderWithMarkers(text, markers, options), as deepDiffHtml calls it
Render ==
    /\ pc = "returned"
    /\ pc' = "rendered"
    /\ result' = renderWithMarkers(text, returned, options)
    /\ UNCHANGED <<revisions, texts, dmp, text, markers, diffs, old, npass, returned,
                   options>>

Next == Pass \/ Return \/ Render

Spec == Init /\ [][Next]_vars

\* ------------------------------ computeDeepDiff on a given revision list

\* the options objects a caller may pass
CallOptions ==
    {DefaultOptions,
     [skipEmpty |-> TRUE] @@ DefaultOptions,
     [skipEmpty |-> FALSE] @@ DefaultOptions,
     [timeout |-> 0] @@ DefaultOptions,
     [timeoutSeconds |-> 5] @@ DefaultOptions,
     [skipEmpty |-> FALSE, timeout |-> 5, timeoutSeconds |-> 2] @@ DefaultOptions}

RevisionLists(maxLen) ==
    UNION {[1..n -> Strings(RawUnits, maxLen)] : n \in 0..MaxRevisions}

InitCall ==
    /\ pc = "call"
    /\ revisions \in RevisionLists(MaxRawLen)
    /\ options \in CallOptions
    /\ texts = <<>>
    /\ dmp = <<>>
    /\ text = <<>>
    /\ markers = <<>>
    /\ diffs = <<>>
    /\ old = <<>>
    /\ npass = 0
    /\ returned = <<>>
    /\ result = <<>>

\* from the entry of computeDeepDiff to its loop, or to the early return
\* mutant: the marker list is one list of the module, shared by all calls
StartSharedMarkers ==
    /\ pc = "call"
    /\ dmp' = newDmp(options)
    /\ texts' = normalize(revisions, options)
    /\ markers' = markers
    /\ diffs' = <<>>
    /\ old' = <<>>
    /\ npass' = 0
    /\ IF Len(texts') < 2
       THEN /\ pc' = "returned"
            /\ text' = (IF texts' = <<>> THEN <<>> ELSE texts'[1])
            /\ returned' = <<>>
       ELSE /\ pc' = "run"
            /\ text' = texts'[1]
            /\ returned' = returned
    /\ UNCHANGED <<revisions, options, result>>

\* From the entry of computeDeepDiff to its loop, or to the early return.  Every
\* local of the call is created here: the engine instance, texts, the marker list
\* and the loop counter.
Start ==
    /\ pc = "call"
    /\ dmp' = newDmp(options)
    /\ texts' = normalize(revisions, options)
    /\ markers' = <<>>
    /\ diffs' = <<>>
    /\ old' = <<>>
    /\ npass' = 0
    /\ IF Len(texts') < 2
       THEN /\ pc' = "returned"
            /\ text' = (IF texts' = <<>> THEN <<>> ELSE texts'[1])
            /\ returned' = <<>>
       ELSE /\ pc' = "run"
            /\ text' = texts'[1]
            /\ returned' = returned
    /\ UNCHANGED <<revisions, options, result>>

\* iteration i = npass + 1 of the loop: the pair (texts[i - 1], texts[i])
NextRevision ==
    /\ pc = "run"
    /\ npass + 1 < Len(texts)
    /\ \E ds \in DiffsBetween(texts[npass + 1], texts[npass + 2], MaxOps) : Iterate(ds)

\* the return behind the loop
Finish ==
    /\ npass + 1 = Len(texts)
    /\ Return

NextCall == Start \/ NextRevision \/ Finish

SpecCall == InitCall /\ [][NextCall]_vars

\* ------------------------------------ deepDiffHtml on a given revision list
\* computeDeepDiff(revisions, options), then renderWithMarkers on what it returned
NextHtml == Start \/ NextRevision \/ Finish \/ Render

SpecHtml == InitCall /\ [][NextHtml]_vars

\* ------------------------------------------ calls that follow one another

\* computeDeepDiff has no await and no callback: a call runs to completion before
\* the next one is entered.  The caller keeps the result of the call before
\* (returned) while the next call runs; what the locals of the call before held
\* stays where it was until the next call overwrites it.
InitCalls ==
    /\ pc = "call"
    /\ revisions \in RevisionLists(MaxAgainLen)
    /\ options \in CallOptions
    /\ texts = <<>>
    /\ dmp = <<>>
    /\ text = <<>>
    /\ markers = <<>>
    /\ diffs = <<>>
    /\ old = <<>>
    /\ npass = 0
    /\ returned = <<>>
    /\ result = <<>>

CallAgain ==
    /\ pc = "returned"
    /\ pc' = "call"
    /\ revisions' \in RevisionLists(MaxAgainLen)
    /\ options' \in CallOptions
    /\ UNCHANGED <<texts, dmp, text, markers, diffs, old, npass, returned, result>>

NextCalls == Start \/ NextRevision \/ Finish \/ CallAgain

SpecCalls == InitCalls /\ [][NextCalls]_vars

\* ------------------------------------ renderWithMarkers called directly

\* the marker lists a caller may pass: plain objects with any bounds
MarkerLists ==
    LET M == [start : 0..MaxRenderLen, end : 0..MaxRenderLen, enabled : BOOLEAN]
        L == UNION {[1..n -> M] : n \in 0..MaxMarkers}
    IN  {[i \in DOMAIN l |-> [id |-> i, start |-> l[i].start, end |-> l[i].end,
                               enabled |-> l[i].enabled]] : l \in L}

InitRender ==
    /\ pc = "returned"
    /\ revisions = <<>>
    /\ texts = <<>>
    /\ dmp = <<>>
    /\ text \in Strings(RenderUnits, MaxRenderLen)
    /\ returned \in MarkerLists
    /\ markers = <<>>
    /\ diffs = <<>>
    /\ old = <<>>
    /\ npass = 0
    /\ options = DefaultOptions
    /\ result = <<>>

NextRender == Render

SpecRender == InitRender /\ [][NextRender]_vars

\* ================================================================ claims

\* ---- what a pass is about, computed from the op sequence alone

IsInsert(ds, k) == ds[k][1] = DIFF_INSERT
IsDelete(ds, k) == ds[k][1] = DIFF_DELETE
IsKept(ds, k) == ds[k][1] = DIFF_EQUAL
SpanLen(ds, k) == Len(ds[k][2])

\* total length of the Kept and Inserted spans among the first k ops: the
\* position in the new revision at which op k + 1 begins
RECURSIVE NewPos(_, _)
NewPos(ds, k) ==
    IF k = 0 THEN 0
    ELSE NewPos(ds, k - 1) + (IF IsDelete(ds, k) THEN 0 ELSE SpanLen(ds, k))

\* total length of the Kept and Deleted spans among the first k ops: the
\* position in the old revision at which op k + 1 begins
RECURSIVE OldPos(_, _)
OldPos(ds, k) ==
    IF k = 0 THEN 0
    ELSE OldPos(ds, k - 1) + (IF IsInsert(ds, k) THEN 0 ELSE SpanLen(ds, k))

NumInserts(ds, k) == Cardinality({j \in 1..k : IsInsert(ds, j)})

\* the Kept span that holds old index x, or 0 when the pass deleted x
KeptSpanOf(ds, x) ==
    LET ks == {k \in DOMAIN ds :
                  /\ IsKept(ds, k)
                  /\ OldPos(ds, k - 1) <= x
                  /\ x < OldPos(ds, k)}
    IN  IF ks = {} THEN 0 ELSE CHOOSE k \in ks : TRUE

\* the index in the new revision of the kept character at old index x
NewIndexOf(ds, x) ==
    LET k == KeptSpanOf(ds, x) IN NewPos(ds, k - 1) + (x - OldPos(ds, k - 1))

OldLen(ds) == OldPos(ds, Len(ds))

ById(ms, id) == CHOOSE m \in {ms[i] : i \in DOMAIN ms} : m.id = id

Ids(ms) == {ms[i].id : i \in DOMAIN ms}

Enabled(ms) == {ms[i] : i \in {j \in DOMAIN ms : ms[j].enabled}}

AfterPass == pc = "run" /\ npass >= 1

\* the marker the pass appended for its Inserted span k
BornFor(k) == markers[Len(old) + NumInserts(diffs, k)]

\* C1: addInsertionMarkers appends exactly one enabled marker per Inserted span, in
\* op order, with start = c and end = c + L - 1, c being the total length of the Kept
\* and Inserted spans before it (Deleted spans do not count); the slice
\* text[start..end] of each such marker is the inserted text.
C1_OneMarkerPerInsertion ==
    AfterPass =>
        /\ Len(markers) = Len(old) + NumInserts(diffs, Len(diffs))
        /\ \A k \in DOMAIN diffs : IsInsert(diffs, k) =>
            LET m == BornFor(k)
                c == NewPos(diffs, k - 1)
            IN  /\ m.enabled
                /\ m.start = c
                /\ m.end = c + SpanLen(diffs, k) - 1
                /\ Slice(text, m.start, m.end + 1) = diffs[k][2]

\* a pass with a Deleted span in front of an Inserted span and a Kept span
C1_Witness ==
    /\ AfterPass
    /\ \E d, k, i \in DOMAIN diffs :
        /\ d < i /\ k < i
        /\ IsDelete(diffs, d) /\ IsKept(diffs, k) /\ IsInsert(diffs, i)
        /\ BornFor(i).start > 0

\* op k is a Deleted span that covers the whole current region of marker o
CoversAt(o, k) ==
    LET st == Walk(o, diffs, k - 1)
    IN  /\ IsDelete(diffs, k)
        /\ st.m.enabled
        /\ st.index <= st.m.start
        /\ st.index + SpanLen(diffs, k) - 1 >= st.m.end

\* op k is a Deleted span that covers the whole region of o in the old revision
CoversOld(o, k) ==
    /\ IsDelete(diffs, k)
    /\ OldPos(diffs, k - 1) <= o.start
    /\ o.end < OldPos(diffs, k)

\* C2: a marker whose whole current region (bounds as updated by the earlier ops of
\* the pass) is covered by one Deleted span is disabled at the end of the pass and is
\* not among the markers returned; so is a marker whose region of the old revision
\* lies in one Deleted span (a span inserted by one pass and deleted by the next).
C2_CoveredMarkerDisabled ==
    npass >= 1 =>
        \A o \in Enabled(old) :
            (\E k \in DOMAIN diffs : CoversAt(o, k) \/ CoversOld(o, k)) =>
                /\ ~ById(markers, o.id).enabled
                /\ pc # "run" => o.id \notin Ids(returned)

\* the marker born in the pass before is covered by a Deleted span of this pass,
\* and the call has returned
C2_Witness ==
    /\ pc = "returned"
    /\ npass = 2
    /\ \E o \in Enabled(old) : \E k \in DOMAIN diffs : CoversOld(o, k) /\ CoversAt(o, k)

\* op k is an Inserted span whose cursor lies strictly inside marker o
InsertsInside(o, k) ==
    LET st == Walk(o, diffs, k - 1)
    IN  /\ IsInsert(diffs, k)
        /\ st.m.enabled
        /\ st.m.start < st.index
        /\ st.index <= st.m.end

\* C4: after every pass every enabled marker satisfies
\* 0 <= start <= end <= Len(text) - 1, and so does every marker returned.
C4_MarkersInsideText ==
    /\ \A m \in Enabled(markers) : 0 <= m.start /\ m.start <= m.end /\ m.end <= Len(text) - 1
    /\ \A i \in DOMAIN returned :
          /\ 0 <= returned[i].start
          /\ returned[i].start <= returned[i].end
          /\ returned[i].end <= Len(text) - 1

\* after a later pass that changed the bounds of a surviving older marker
C4_Witness ==
    /\ AfterPass
    /\ npass >= 2
    /\ \E o \in Enabled(old) :
        LET m == ById(markers, o.id)
        IN  m.enabled /\ m.start # o.start /\ MLength(m) # MLength(o)

\* the old indices of o's region that the pass kept
KeptOf(o) == {x \in o.start..o.end : KeptSpanOf(diffs, x) # 0}

Min(S) == CHOOSE x \in S : \A y \in S : x <= y

\* C5: a pass disables a marker exactly when it keeps no character of the marker's
\* region; a marker that stays enabled starts at the new index of the first kept
\* character of its region, contains the new index of every kept character of the
\* region, and contains no kept character from outside the region.
C5_TracksRegion ==
    npass >= 1 =>
        \A o \in Enabled(old) :
            LET m == ById(markers, o.id)
            IN  /\ m.enabled <=> KeptOf(o) # {}
                /\ m.enabled =>
                    /\ m.start = NewIndexOf(diffs, Min(KeptOf(o)))
                    /\ \A x \in KeptOf(o) :
                          m.start <= NewIndexOf(diffs, x) /\ NewIndexOf(diffs, x) <= m.end
                    /\ \A x \in 0..(OldLen(diffs) - 1) :
                          (KeptSpanOf(diffs, x) # 0 /\ x \notin o.start..o.end) =>
                              ~(m.start <= NewIndexOf(diffs, x) /\ NewIndexOf(diffs, x) <= m.end)

\* a marker that lost its first character and another character, kept one, and moved
C5_Witness ==
    /\ AfterPass
    /\ \E o \in Enabled(old) :
        LET m == ById(markers, o.id)
        IN  /\ m.enabled
            /\ o.start \notin KeptOf(o)
            /\ Cardinality(KeptOf(o)) < MLength(o) - 1
            /\ m.start # o.start

\* ---- reading the rendered string back

MatchesAt(out, i, lit) ==
    /\ i + Len(lit) - 1 <= Len(out)
    /\ SubSeq(out, i, i + Len(lit) - 1) = lit

Tok(kind, unit, len) == [kind |-> kind, unit |-> unit, len |-> len]

\* the token that begins at out[i]: an open or close tag literal, one of the four
\* entities (unit: the character it stands for), or a raw code unit
TokenAt(out, i, opts) ==
    IF MatchesAt(out, i, openTag(opts)) THEN Tok("open", "", Len(openTag(opts)))
    ELSE IF MatchesAt(out, i, closeTag(opts)) THEN Tok("close", "", Len(closeTag(opts)))
    ELSE IF MatchesAt(out, i, AMP) THEN Tok("entity", "&", Len(AMP))
    ELSE IF MatchesAt(out, i, LT) THEN Tok("entity", "<", Len(LT))
    ELSE IF MatchesAt(out, i, GT) THEN Tok("entity", ">", Len(GT))
    ELSE IF MatchesAt(out, i, QUOT) THEN Tok("entity", "\"", Len(QUOT))
    ELSE Tok("raw", out[i], 1)

RECURSIVE TokensFrom(_, _, _)
TokensFrom(out, i, opts) ==
    IF i > Len(out) THEN <<>>
    ELSE LET t == TokenAt(out, i, opts)
         IN  <<t>> \o TokensFrom(out, i + t.len, opts)

Tokens == TokensFrom(result, 1, options)

IsTag(t) == t.kind \in {"open", "close"}

\* the output with the tags removed and the entities un-escaped
Plain(toks) ==
    LET ts == SelectSeq(toks, LAMBDA t : ~IsTag(t))
    IN  [i \in DOMAIN ts |-> ts[i].unit]

TagsOnly(toks) == SelectSeq(toks, IsTag)

NumKind(toks, kind) == Cardinality({i \in DOMAIN toks : toks[i].kind = kind})

\* number of text characters the output holds in front of token k
OffsetOf(toks, k) == Cardinality({i \in 1..(k - 1) : ~IsTag(toks[i])})

\* each close tag paired with the most recent unclosed open tag, over the first k tokens
RECURSIVE Pairing(_, _)
Pairing(toks, k) ==
    IF k = 0 THEN [stack |-> <<>>, pairs |-> {}, ok |-> TRUE]
    ELSE LET s == Pairing(toks, k - 1)
             t == toks[k]
         IN  IF t.kind = "open" THEN [s EXCEPT !.stack = <<k>> \o @]
             ELSE IF t.kind = "close" THEN
                 IF s.stack = <<>> THEN [s EXCEPT !.ok = FALSE]
                 ELSE [s EXCEPT !.stack = Tail(@), !.pairs = @ \cup {<<Head(s.stack), k>>}]
             ELSE s

Pairs(toks) == Pairing(toks, Len(toks)).pairs

ProperlyNested(toks) ==
    LET s == Pairing(toks, Len(toks)) IN s.ok /\ s.stack = <<>>

Active == SelectSeq(returned, LAMBDA m : m.enabled)

Rendered == pc = "rendered"

Disjoint(a, b) == a.end < b.start \/ b.end < a.start
Contains(a, b) == a.start <= b.start /\ b.end <= a.end

Laminar(ms) ==
    \A i, j \in DOMAIN ms :
        Disjoint(ms[i], ms[j]) \/ Contains(ms[i], ms[j]) \/ Contains(ms[j], ms[i])

\* every marker is an inclusive range of a non-empty slice of the text
InsideText(ms) ==
    \A i \in DOMAIN ms : 0 <= ms[i].start /\ ms[i].start <= ms[i].end /\ ms[i].end < Len(text)

\* no marker boundary falls between the two code units of a surrogate pair
OnCodePoints(ms) ==
    \A i \in DOMAIN ms : \A q \in {ms[i].start, ms[i].end + 1} :
        ~(q >= 1 /\ q < Len(text) /\ text[q] = "HI" /\ text[q + 1] = "LO")

\* ---- the tags of one marker, by the order of the boundary events

NumEventsBefore(ms, q) ==
    Cardinality({i \in DOMAIN ms : ms[i].start < q})
        + Cardinality({i \in DOMAIN ms : ms[i].end + 1 < q})

\* the places, among the tags of the output, of the open tags of position m.start
OpenRanks(ms, m) ==
    LET lo == NumEventsBefore(ms, m.start)
                 + Cardinality({i \in DOMAIN ms : ms[i].end + 1 = m.start})
    IN  (lo + 1)..(lo + Cardinality({i \in DOMAIN ms : ms[i].start = m.start}))

\* the places, among the tags of the output, of the close tags of position m.end + 1
CloseRanks(ms, m) ==
    LET lo == NumEventsBefore(ms, m.end + 1)
    IN  (lo + 1)..(lo + Cardinality({i \in DOMAIN ms : ms[i].end = m.end}))

\* C3: when a pass inserts a span at a cursor strictly inside an enabled marker
\* (start < c <= end, bounds as updated by the earlier ops), the marker is expanded by
\* the span's length and at the end of the pass it is enabled and contains the marker
\* born for the span (old.start < new.start, new.end <= old.end); and in the rendered
\* string the tag pair of the new marker lies inside the tag pair of the older one.
C3_InsertionInsideNests ==
    npass >= 1 =>
        \A o \in Enabled(old) : \A k \in DOMAIN diffs : InsertsInside(o, k) =>
            LET m == ById(markers, o.id)
                nw == BornFor(k)
            IN  /\ Walk(o, diffs, k).m.end = Walk(o, diffs, k - 1).m.end + SpanLen(diffs, k)
                /\ Walk(o, diffs, k).m.start = Walk(o, diffs, k - 1).m.start
                /\ m.enabled /\ nw.enabled
                /\ nw.start = Walk(o, diffs, k - 1).index
                /\ m.start < nw.start /\ nw.end <= m.end
                /\ Rendered =>
                    LET tags == TagsOnly(Tokens)
                    IN  \E po, pn \in Pairs(tags) :
                            /\ po[1] < pn[1] /\ pn[2] < po[2]
                            /\ po[1] \in OpenRanks(returned, m)
                            /\ pn[1] \in OpenRanks(returned, nw)
                            /\ pn[2] \in CloseRanks(returned, nw)
                            /\ po[2] \in CloseRanks(returned, m)

\* the last pass inserted inside a marker and later deleted from that marker, and
\* the result has been rendered
C3_Witness ==
    /\ Rendered
    /\ \E o \in Enabled(old) : \E k, d \in DOMAIN diffs :
        /\ InsertsInside(o, k)
        /\ k < d /\ IsDelete(diffs, d)
        /\ MLength(ById(markers, o.id)) < MLength(o) + SpanLen(diffs, k)

\* C6 (as claimed): for markers that lie inside the text on code point boundaries,
\* at every character index p of text the number of open tags minus the number of
\* close tags in front of that character equals the number of enabled markers with
\* start <= p <= end.
C6_DepthIsCoverage ==
    (Rendered /\ InsideText(Active) /\ OnCodePoints(Active)) =>
        LET toks == Tokens
            chars == {k \in DOMAIN toks : ~IsTag(toks[k])}
        IN  \A k \in chars :
                LET p == OffsetOf(toks, k)
                IN  NumKind(SubSeq(toks, 1, k), "open") - NumKind(SubSeq(toks, 1, k), "close")
                        = Cardinality({i \in DOMAIN Active :
                                          Active[i].start <= p /\ p <= Active[i].end})

\* the text of the output between tokens i and j
Enclosed(toks, i, j) == Plain(SubSeq(toks, i, j))

\* C7 (as claimed): for a laminar set of enabled markers inside the text, on code
\* point boundaries, the output is properly nested, and the tag pairs correspond one
\* to one to the markers, each pair enclosing exactly text[start..end] of its marker.
C7_PairsEncloseMarkers ==
    (Rendered /\ InsideText(Active) /\ OnCodePoints(Active) /\ Laminar(Active)) =>
        LET toks == Tokens
        IN  /\ ProperlyNested(toks)
            /\ \A s, e \in 0..Len(text) :
                  /\ Cardinality({i \in DOMAIN Active : Active[i].start = s /\ Active[i].end = e})
                       = Cardinality({pr \in Pairs(toks) :
                                         /\ OffsetOf(toks, pr[1]) = s
                                         /\ OffsetOf(toks, pr[2]) = e + 1})
            /\ \A pr \in Pairs(toks) :
                  \E i \in DOMAIN Active :
                      Enclosed(toks, pr[1], pr[2]) = Slice(text, Active[i].start, Active[i].end + 1)

\* C8: for a laminar marker set, removing the tags from the output and un-escaping
\* the four entities gives back text.
C8_RoundTrip ==
    (Rendered /\ Laminar(Active)) => Plain(Tokens) = text

\* a text with a character that is escaped, inside a marker nested in another one
C8_Witness ==
    /\ Rendered
    /\ Laminar(Active)
    /\ \E i, j \in DOMAIN Active :
        /\ i # j /\ Contains(Active[i], Active[j])
        /\ Active[j].end < Len(text)
        /\ text[Active[j].start + 1] \in {"&", "<", ">", "\""}

Specials == {"&", "<", ">", "\""}

\* C9: every '&', '<', '>' and '"' of text appears in the output only as its entity,
\* inside and outside markers; no raw '&', '<', '>' or '"' is left outside the tag
\* literals, and the tag literals are emitted unescaped, one pair per enabled marker.
C9_SpecialsEscaped ==
    Rendered =>
        LET toks == Tokens
            chars == SelectSeq(toks, LAMBDA t : ~IsTag(t))
        IN  /\ \A k \in DOMAIN toks : toks[k].kind = "raw" => toks[k].unit \notin Specials
            /\ Len(chars) = Len(text)
            /\ \A p \in DOMAIN chars :
                  /\ chars[p].unit = text[p]
                  /\ text[p] \in Specials <=> chars[p].kind = "entity"
            /\ NumKind(toks, "open") + NumKind(toks, "close") = 2 * Len(Active)

\* a special character inside a marker and another one outside every marker
C9_Witness ==
    /\ Rendered
    /\ Len(Active) >= 1
    /\ \E p, q \in DOMAIN text :
        /\ text[p] \in Specials /\ text[q] \in Specials
        /\ \E i \in DOMAIN Active : Active[i].start <= p - 1 /\ p - 1 <= Active[i].end
        /\ \A i \in DOMAIN Active : ~(Active[i].start <= q - 1 /\ q - 1 <= Active[i].end)

\* C10: for every text and every marker list the output holds as many open tags as
\* close tags, namely one of each per enabled marker passed in.
C10_TagBalance ==
    Rendered =>
        /\ NumKind(Tokens, "open") = Len(Active)
        /\ NumKind(Tokens, "close") = Len(Active)

\* two enabled markers that cross, one of them reaching past the end of the text
C10_Witness ==
    /\ Rendered
    /\ \E i, j \in DOMAIN Active :
        /\ Active[i].start < Active[j].start
        /\ Active[j].start <= Active[i].end
        /\ Active[i].end < Active[j].end
        /\ Active[j].end >= Len(text)

\* ---- disabled markers

\* the marker list ms with every disabled marker moved to the bounds [q, q]
MovedDisabled(ms, q) ==
    [i \in DOMAIN ms |->
        IF ms[i].enabled THEN ms[i] ELSE [ms[i] EXCEPT !.start = q, !.end = q]]

\* C11: a disabled marker contributes no open and no close event: for every text and
\* every marker list M, renderWithMarkers(text, M) is renderWithMarkers of text with
\* the enabled members of M alone, whatever bounds the disabled markers hold.
C11_DisabledContributeNothing ==
    Rendered =>
        /\ result = renderWithMarkers(text, Active, options)
        /\ \A q \in 0..MaxRenderLen :
              result = renderWithMarkers(text, MovedDisabled(returned, q), options)

\* a disabled marker whose bounds lie inside the text, next to an enabled one
C11_Witness ==
    /\ Rendered
    /\ \E i, j \in DOMAIN returned :
        /\ ~returned[i].enabled
        /\ returned[i].start <= returned[i].end
        /\ returned[i].end < Len(text)
        /\ returned[j].enabled
        /\ returned[j].start # returned[i].start

\* C12: every marker of the list computeDeepDiff returns is enabled, and the list is
\* exactly the markers of the accumulated list that are enabled after the last pass,
\* in the order of that list.
C12_ReturnedAreEnabled ==
    pc # "run" =>
        /\ \A i \in DOMAIN returned : returned[i].enabled
        /\ {returned[i] : i \in DOMAIN returned} = Enabled(markers)
        /\ Len(returned) = Cardinality(Enabled(markers))
        /\ \A i, j \in DOMAIN markers :
              (i < j /\ markers[i].enabled /\ markers[j].enabled) =>
                  \E a, b \in DOMAIN returned :
                      a < b /\ returned[a] = markers[i] /\ returned[b] = markers[j]

\* the call returned with a disabled marker between two enabled ones in its list
C12_Witness ==
    /\ pc = "returned"
    /\ \E i, j, k \in DOMAIN markers :
        /\ i < j /\ j < k
        /\ markers[i].enabled /\ ~markers[j].enabled /\ markers[k].enabled

\* within the pass, a marker that an op disabled is still disabled after the next op
WalkKeepsDisabled ==
    \A o \in Enabled(old) : \A k \in DOMAIN diffs :
        ~Walk(o, diffs, k - 1).m.enabled => ~Walk(o, diffs, k).m.enabled

\* C13: disabled is terminal: no step changes a marker's enabled flag from false to
\* true (neither within a pass nor from pass to pass), and a marker that is disabled
\* at the end of a pass has its start and end left unchanged by every later pass:
\* after every pass, each marker that was disabled when the pass began (old) is in
\* the list with the same start, end and enabled = false.
C13_DisabledIsTerminal ==
    npass >= 1 =>
        /\ \A i \in DOMAIN old :
              ~old[i].enabled => \E j \in DOMAIN markers : markers[j] = old[i]
        /\ WalkKeepsDisabled

\* a later pass whose ops would have moved a marker that was disabled before it, and
\* a marker that the pass disabled in front of a later Inserted span
C13_Witness ==
    /\ AfterPass
    /\ \E o \in {old[i] : i \in DOMAIN old} :
        /\ ~o.enabled
        /\ Walk(o, diffs, Len(diffs)).m # o
        /\ ById(markers, o.id) = o
    /\ \E o \in Enabled(old) : \E k \in DOMAIN diffs :
        /\ k < Len(diffs)
        /\ ~Walk(o, diffs, k).m.enabled
        /\ IsInsert(diffs, k + 1)

\* ---- the revision list, normalized from its definition

NonWhite(s) == {i \in DOMAIN s : s[i] \notin WhiteSpace}

Max(S) == CHOOSE x \in S : \A y \in S : y <= x

\* s without its leading and trailing white space
Trimmed(s) ==
    IF NonWhite(s) = {} THEN <<>> ELSE SubSeq(s, Min(NonWhite(s)), Max(NonWhite(s)))

\* empty revisions are skipped unless the caller passed skipEmpty: false
SkipsEmpty == ~("skipEmpty" \in DOMAIN options /\ ~options.skipEmpty)

Blank(r) == Trimmed(r) = <<>>

\* the revisions that remain after normalization
Remaining ==
    LET kept == IF SkipsEmpty THEN SelectSeq(revisions, LAMBDA r : ~Blank(r)) ELSE revisions
    IN  [i \in DOMAIN kept |-> Trimmed(kept[i])]

\* C14: when fewer than two revisions remain after normalization, computeDeepDiff
\* returns the text of the first remaining revision (the empty string when none
\* remains) with an empty marker list, and requests no diff from the diff engine.
C14_FewerThanTwoRevisions ==
    (pc # "call" /\ Len(Remaining) < 2) =>
        /\ pc = "returned"
        /\ text = (IF Remaining = <<>> THEN <<>> ELSE Remaining[1])
        /\ returned = <<>>
        /\ npass = 0
        /\ diffs = <<>>

\* three revisions were passed and one remains, with white space around its text
C14_Witness ==
    /\ pc = "returned"
    /\ Len(revisions) = 3
    /\ Len(Remaining) = 1
    /\ text # <<>>
    /\ \E i \in DOMAIN revisions : ~Blank(revisions[i]) /\ revisions[i] # text

AllKept == \A k \in DOMAIN diffs : IsKept(diffs, k)

\* C15: a pass between two identical revisions (an op sequence of Kept spans only)
\* creates no marker and leaves start, end and enabled of every marker unchanged;
\* so appending a copy of the last revision to a chain leaves the returned text and
\* the returned set of markers unchanged.
C15_IdentityPass ==
    (npass >= 1 /\ AllKept) =>
        /\ Len(markers) = Len(old)
        /\ \A i \in DOMAIN old : \E j \in DOMAIN markers : markers[j] = old[i]
        /\ text = Concat([k \in DOMAIN diffs |-> diffs[k][2]])
        /\ pc # "run" => {returned[i] : i \in DOMAIN returned} = Enabled(old)

\* the call returned after a pass of Kept spans that found an enabled marker
\* behind a disabled one
C15_Witness ==
    /\ pc = "returned"
    /\ npass >= 2
    /\ AllKept
    /\ diffs # <<>>
    /\ \E i, j \in DOMAIN old :
        i < j /\ ~old[i].enabled /\ old[j].enabled /\ old[j].start > 0

\* C16: every revision is trimmed before use; with skipEmpty true (the default) the
\* revisions whose trimmed text is empty are dropped, so that the list the passes
\* run over is that of the chain without them; with skipEmpty false they are kept
\* and diffed like any other revision; the returned text is the trimmed last
\* revision that remains.
C16_Normalization ==
    pc # "call" =>
        /\ texts = Remaining
        /\ SkipsEmpty =>
              texts = normalize(SelectSeq(revisions, LAMBDA r : ~Blank(r)), options)
        /\ ~SkipsEmpty => Len(texts) = Len(revisions)
        /\ pc = "run" => text = Remaining[npass + 1]
        /\ pc = "returned" =>
              /\ Remaining # <<>> => text = Remaining[Len(Remaining)]
              /\ Len(Remaining) >= 2 => npass = Len(Remaining) - 1

\* a white-space-only revision between two revisions with white space around their
\* text was dropped, and the call returned after its one pass
C16_Witness ==
    /\ pc = "returned"
    /\ SkipsEmpty
    /\ Len(revisions) = 3
    /\ revisions[2] # <<>> /\ Blank(revisions[2])
    /\ ~Blank(revisions[1]) /\ revisions[1] # Trimmed(revisions[1])
    /\ ~Blank(revisions[3]) /\ revisions[3] # Trimmed(revisions[3])
    /\ npass = 1

\* C17: when the marker list holds no enabled marker (it is empty, or all its
\* markers are disabled), renderWithMarkers returns exactly the escaped text, with
\* no tag.
C17_NoEnabledMarker ==
    (Rendered /\ Len(Active) = 0) =>
        /\ result = escapeHtml(text)
        /\ NumKind(Tokens, "open") = 0
        /\ NumKind(Tokens, "close") = 0
        /\ Plain(Tokens) = text
        /\ \A k \in DOMAIN Tokens : Tokens[k].kind = "raw" => Tokens[k].unit \notin Specials

\* a text with a special character, and a list of disabled markers inside the text
C17_Witness ==
    /\ Rendered
    /\ Len(returned) >= 1
    /\ Len(Active) = 0
    /\ \E p \in DOMAIN text : text[p] \in Specials
    /\ \A i \in DOMAIN returned :
          returned[i].start <= returned[i].end /\ returned[i].end < Len(text)

\* ---- calls that follow one another

\* what a call holds once it has started, from its own arguments
OwnState ==
    pc # "call" =>
        /\ texts = Remaining
        /\ dmp.Diff_Timeout = (IF "timeout" \in DOMAIN options THEN options.timeout ELSE 1)
        /\ (pc = "run" /\ npass = 0) => markers = <<>>
        /\ npass = 1 => old = <<>>
        /\ Len(markers) <= npass * MaxOps
        /\ (pc = "returned" /\ Len(texts) < 2) => returned = <<>>

C19_TimeoutSecondsOption ==
    pc # "call" =>
        dmp.Diff_Timeout =
            (IF "timeoutSeconds" \in DOMAIN options THEN options.timeoutSeconds ELSE 1)

\* C19 (amended): the time budget handed to the diff engine is the value of the
\* option timeout (a timeout of 0 included), and is 1 when that option is absent,
\* whatever other properties the options object holds; it is the same in every pass.
C19_TimeoutOption ==
    pc # "call" =>
        dmp.Diff_Timeout = (IF "timeout" \in DOMAIN options THEN options.timeout ELSE 1)

\* a call that ran a pass under a timeout option of 0
C19_Witness ==
    /\ pc = "returned"
    /\ npass >= 1
    /\ "timeout" \in DOMAIN options
    /\ options.timeout = 0

\* ---- the Inserted span, case by case

\* C20: for an Inserted span of length L at cursor c, with the bounds of an enabled
\* marker as the earlier ops of the pass left them: c <= start adds L to start and to
\* end; start < c <= end adds L to end only; c > end changes nothing; enabled is
\* never changed; and in every case the cursor is c + L after the op.
C20_InsertCases ==
    npass >= 1 =>
        \A o \in Enabled(old) : \A k \in DOMAIN diffs : IsInsert(diffs, k) =>
            LET a == Walk(o, diffs, k - 1)
                b == Walk(o, diffs, k)
                c == a.index
                L == SpanLen(diffs, k)
            IN  /\ c = NewPos(diffs, k - 1)
                /\ b.index = c + L
                /\ b.m.enabled = a.m.enabled
                /\ a.m.enabled =>
                    /\ c <= a.m.start => b.m.start = a.m.start + L /\ b.m.end = a.m.end + L
                    /\ (a.m.start < c /\ c <= a.m.end) =>
                          b.m.start = a.m.start /\ b.m.end = a.m.end + L
                    /\ c > a.m.end => b.m.start = a.m.start /\ b.m.end = a.m.end

\* one pass with an insertion directly in front of a marker (c = start > 0) and an
\* insertion directly behind a marker (c = end + 1)
C20_Witness ==
    /\ AfterPass
    /\ \E o \in Enabled(old) : \E k \in DOMAIN diffs :
        LET a == Walk(o, diffs, k - 1)
        IN  IsInsert(diffs, k) /\ a.m.enabled /\ a.index = a.m.start /\ a.index > 0
    /\ \E o \in Enabled(old) : \E k \in DOMAIN diffs :
        LET a == Walk(o, diffs, k - 1)
        IN  IsInsert(diffs, k) /\ a.m.enabled /\ a.index = a.m.end + 1

\* ---- the Deleted span, case by case

\* op k of the last pass is a Deleted span that finds marker o enabled
DeletesAt(o, k) == IsDelete(diffs, k) /\ Walk(o, diffs, k - 1).m.enabled

\* the last index of the Deleted span k, at the cursor it finds for marker o
DelEnd(o, k) == Walk(o, diffs, k - 1).index + SpanLen(diffs, k) - 1

\* C21: for a Deleted span [c, delEnd] of length L with c <= start and
\* start <= delEnd < end (a deletion overlapping the start of the marker), the marker
\* ends with start = c and end = old end - L; its length shrinks by
\* delEnd - old start + 1, the number of deleted characters that lay inside it, and
\* stays >= 1; the marker stays enabled.
C21_DeleteOverStart ==
    npass >= 1 =>
        \A o \in Enabled(old) : \A k \in DOMAIN diffs :
            LET a == Walk(o, diffs, k - 1)
                b == Walk(o, diffs, k)
                c == a.index
            IN  (/\ DeletesAt(o, k)
                 /\ c <= a.m.start
                 /\ a.m.start <= DelEnd(o, k)
                 /\ DelEnd(o, k) < a.m.end) =>
                    /\ b.m.start = c
                    /\ b.m.end = a.m.end - SpanLen(diffs, k)
                    /\ MLength(b.m) = MLength(a.m) - (DelEnd(o, k) - a.m.start + 1)
                    /\ MLength(b.m) >= 1
                    /\ b.m.enabled

\* a deletion that begins in front of a marker and ends inside it
C21_Witness ==
    /\ AfterPass
    /\ \E o \in Enabled(old) : \E k \in DOMAIN diffs :
        LET a == Walk(o, diffs, k - 1)
        IN  /\ DeletesAt(o, k)
            /\ a.index < a.m.start
            /\ a.m.start <= DelEnd(o, k)
            /\ DelEnd(o, k) < a.m.end

\* C22: for a Deleted span [c, delEnd] of length L that begins strictly inside an
\* enabled marker (start < c <= end), start is unchanged and end decreases by the
\* number of deleted characters that lay inside the marker: end becomes c - 1 when
\* delEnd >= end, and end - L when delEnd < end; the marker stays enabled.
C22_DeleteFromInside ==
    npass >= 1 =>
        \A o \in Enabled(old) : \A k \in DOMAIN diffs :
            LET a == Walk(o, diffs, k - 1)
                b == Walk(o, diffs, k)
                c == a.index
            IN  (DeletesAt(o, k) /\ a.m.start < c /\ c <= a.m.end) =>
                    /\ b.m.start = a.m.start
                    /\ DelEnd(o, k) >= a.m.end => b.m.end = c - 1
                    /\ DelEnd(o, k) < a.m.end => b.m.end = a.m.end - SpanLen(diffs, k)
                    /\ b.m.enabled

\* a deletion that begins inside a marker and runs past its end
C22_Witness ==
    /\ AfterPass
    /\ \E o \in Enabled(old) : \E k \in DOMAIN diffs :
        LET a == Walk(o, diffs, k - 1)
        IN  /\ DeletesAt(o, k)
            /\ a.m.start < a.index
            /\ a.index <= a.m.end
            /\ DelEnd(o, k) > a.m.end

\* C23: for a Deleted span [c, delEnd] of length L: when delEnd < start the marker
\* is shifted left by L with its length unchanged; when c > end the marker is
\* unchanged; in every Deleted case the cursor does not advance, whereas it advances
\* by the span length for Kept and Inserted spans.
C23_DeleteOutside ==
    npass >= 1 =>
        \A o \in Enabled(old) : \A k \in DOMAIN diffs :
            LET a == Walk(o, diffs, k - 1)
                b == Walk(o, diffs, k)
                L == SpanLen(diffs, k)
            IN  /\ (DeletesAt(o, k) /\ DelEnd(o, k) < a.m.start) =>
                      /\ b.m.start = a.m.start - L
                      /\ b.m.end = a.m.end - L
                      /\ b.m.enabled
                /\ (DeletesAt(o, k) /\ a.index > a.m.end) => b.m = a.m
                /\ b.index = (IF IsDelete(diffs, k) THEN a.index ELSE a.index + L)
                /\ a.index = NewPos(diffs, k - 1)

\* one pass with a deletion in front of a marker, behind a Kept span, and a
\* deletion behind a marker
C23_Witness ==
    /\ AfterPass
    /\ \E o \in Enabled(old) : \E k \in DOMAIN diffs :
        DeletesAt(o, k) /\ k > 1 /\ DelEnd(o, k) < Walk(o, diffs, k - 1).m.start
    /\ \E o \in Enabled(old) : \E k \in DOMAIN diffs :
        DeletesAt(o, k) /\ Walk(o, diffs, k - 1).index > Walk(o, diffs, k - 1).m.end

\* ---- the shape of the marker set

EnabledList == SelectSeq(markers, LAMBDA m : m.enabled)

\* C24: starting from the empty marker set, after any sequence of passes over valid
\* op sequences the enabled markers form a laminar family (any two of them are
\* disjoint or one contains the other), and so do the markers computeDeepDiff
\* returns.
C24_EnabledAreLaminar ==
    /\ Laminar(EnabledList)
    /\ pc # "run" => Laminar(returned)

\* after three passes: a marker that contains a younger marker, and a third marker
\* disjoint from both, the oldest of them changed in length by a later pass
C24_Witness ==
    /\ pc = "returned"
    /\ npass = MaxPasses
    /\ \E i, j, k \in DOMAIN returned :
        /\ returned[i].id < returned[j].id
        /\ returned[i].start < returned[j].start
        /\ returned[j].end < returned[i].end
        /\ Disjoint(returned[k], returned[i])
    /\ \E o \in Enabled(old) : MLength(ById(markers, o.id)) < MLength(o)

\* ---- crossing markers and the order of the tags

\* a and b overlap and neither contains the other, a beginning first
Crossing(a, b) == a.start < b.start /\ b.start <= a.end /\ a.end < b.end

HasCrossing(ms) == \E i, j \in DOMAIN ms : Crossing(ms[i], ms[j])

NoSurrogatePair == \A q \in 1..(Len(text) - 1) : ~(text[q] = "HI" /\ text[q + 1] = "LO")

\* number of tags of the kind that stand in front of text character q
CountAt(toks, kind, q) ==
    Cardinality({k \in DOMAIN toks : toks[k].kind = kind /\ OffsetOf(toks, k) = q})

\* the stack pairs of the output are, position for position, the markers
PairsMatchMarkers(toks, ms) ==
    LET P == 0..(Len(text) + 1) \cup {ms[i].start : i \in DOMAIN ms}
                 \cup {ms[i].end : i \in DOMAIN ms}
    IN  \A s, e \in P :
            Cardinality({i \in DOMAIN ms : ms[i].start = s /\ ms[i].end = e})
                = Cardinality({pr \in Pairs(toks) :
                                  /\ OffsetOf(toks, pr[1]) = s
                                  /\ OffsetOf(toks, pr[2]) = e + 1})

\* C25: when the enabled markers passed to renderWithMarkers hold two markers that
\* partially cross, the output is improperly nested: every open tag stands at the
\* start of a marker and every close tag behind the end of a marker (for markers
\* inside a text without surrogate pairs), and pairing each close tag with the most
\* recent unclosed open tag does not give the regions of the input markers.
C25_CrossingIsMisnested ==
    (Rendered /\ HasCrossing(Active)) =>
        /\ ~PairsMatchMarkers(Tokens, Active)
        /\ (InsideText(Active) /\ NoSurrogatePair) =>
              \A q \in 0..Len(text) :
                  /\ CountAt(Tokens, "open", q)
                       = Cardinality({i \in DOMAIN Active : Active[i].start = q})
                  /\ CountAt(Tokens, "close", q)
                       = Cardinality({i \in DOMAIN Active : Active[i].end + 1 = q})

\* two crossing markers inside a text of plain characters
C25_Witness ==
    /\ Rendered
    /\ HasCrossing(Active)
    /\ InsideText(Active)
    /\ NoSurrogatePair

\* C26: for every marker list whose enabled markers all have start <= end, laminar
\* or crossing, no prefix of the output holds more close tags than open tags.
C26_NoCloseBeforeOpen ==
    (Rendered /\ \A i \in DOMAIN Active : Active[i].start <= Active[i].end) =>
        LET toks == Tokens
        IN  \A k \in 0..Len(toks) :
                NumKind(SubSeq(toks, 1, k), "close") <= NumKind(SubSeq(toks, 1, k), "open")

\* a marker of one character directly in front of another marker
C26_Witness ==
    /\ Rendered
    /\ \E i, j \in DOMAIN Active :
        /\ Active[i].start = Active[i].end
        /\ Active[j].start = Active[i].end + 1
        /\ Active[j].start <= Active[j].end
        /\ Active[j].end < Len(text)

\* C27 (as claimed): for markers as computeDeepDiff returns them (inside the text,
\* laminar, on code point boundaries, indices in UTF-16 code units), a tag pair of
\* the output opens at each marker's start and encloses text.slice(start, end + 1),
\* also when text holds a surrogate pair.
C27_SameUnit ==
    (Rendered /\ InsideText(Active) /\ Laminar(Active) /\ OnCodePoints(Active)) =>
        \A i \in DOMAIN Active :
            \E pr \in Pairs(Tokens) :
                /\ OffsetOf(Tokens, pr[1]) = Active[i].start
                /\ Enclosed(Tokens, pr[1], pr[2])
                     = Slice(text, Active[i].start, Active[i].end + 1)

\* C28 (as claimed): the tags are emitted in ascending position, at equal positions
\* every close before every open; for two abutting markers [a, b] and [b + 1, c] the
\* close tag of the first precedes the open tag of the second; and when every
\* enabled marker has length >= 1 and lies inside the text (on code point
\* boundaries), no open tag is directly followed by a close tag.
C28_EventOrder ==
    Rendered =>
        LET tags == TagsOnly(Tokens)
        IN  /\ \A i \in DOMAIN Active :
                  /\ \A r \in OpenRanks(Active, Active[i]) : tags[r].kind = "open"
                  /\ \A r \in CloseRanks(Active, Active[i]) : tags[r].kind = "close"
            /\ \A i, j \in DOMAIN Active :
                  Active[j].start = Active[i].end + 1 =>
                      \A r \in CloseRanks(Active, Active[i]) :
                          \A t \in OpenRanks(Active, Active[j]) : r < t
            /\ (/\ InsideText(Active)
                /\ OnCodePoints(Active)
                /\ \A i \in DOMAIN Active : MLength(Active[i]) >= 1) =>
                  LET toks == Tokens
                  IN  \A k \in 1..(Len(toks) - 1) :
                          ~(toks[k].kind = "open" /\ toks[k + 1].kind = "close")

\* ---- the order of the passes

\* the text of the spans of ds other than those of kind op
RECURSIVE TextWithout(_, _)
TextWithout(ds, op) ==
    IF ds = <<>> THEN <<>>
    ELSE (IF Head(ds)[1] = op THEN <<>> ELSE Head(ds)[2]) \o TextWithout(Tail(ds), op)

\* what one pass makes of a marker that it found in the list
Transformed(o) == IF o.enabled THEN Walk(o, diffs, Len(diffs)).m ELSE o

\* C29: for n >= 2 usable revisions computeDeepDiff runs exactly n - 1 passes, pass i
\* on the pair (R_{i-1}, R_i), in order; within a pass the accumulated markers are
\* transformed before the new ones are appended: after pass i the markers it found
\* are transformed by its ops and the markers born in it stand where they were born,
\* to be transformed by pass i + 1 first.
C29_PassOrder ==
    pc # "call" =>
        LET n == Len(Remaining)
        IN  /\ pc = "run" => npass <= n - 1
            /\ (pc = "returned" /\ n >= 2) => npass = n - 1
            /\ npass >= 1 =>
                /\ TextWithout(diffs, DIFF_INSERT) = Remaining[npass]
                /\ TextWithout(diffs, DIFF_DELETE) = Remaining[npass + 1]
                /\ Len(markers) = Len(old) + NumInserts(diffs, Len(diffs))
                /\ \A i \in DOMAIN old : ById(markers, old[i].id) = Transformed(old[i])
                /\ \A k \in DOMAIN diffs : IsInsert(diffs, k) =>
                      /\ BornFor(k).id \notin Ids(old)
                      /\ BornFor(k).start = NewPos(diffs, k - 1)
                      /\ BornFor(k).end = NewPos(diffs, k) - 1
                      /\ BornFor(k).enabled

\* three usable revisions: the second pass moved the marker born in the first pass
\* and appended a marker of its own behind another op
C29_Witness ==
    /\ pc = "returned"
    /\ Len(Remaining) = 3
    /\ npass = 2
    /\ \E o \in Enabled(old) : ById(markers, o.id).start # o.start
    /\ \E k \in DOMAIN diffs : k > 1 /\ IsInsert(diffs, k)

RECURSIVE Reverse(_)
Reverse(sq) == IF sq = <<>> THEN <<>> ELSE Reverse(Tail(sq)) \o <<Head(sq)>>

AsSet(sq) == {sq[i] : i \in DOMAIN sq}

\* C30: the transformation of a marker depends only on that marker and the op
\* sequence: transformMarkers gives every marker the start, end and enabled that it
\* gives the marker alone, whatever other markers the list holds and in whatever
\* order the list is handed over; sorting by start changes the order of the result
\* only.
C30_MarkersIndependent ==
    npass >= 1 =>
        LET T == transformMarkers(old, diffs)
        IN  /\ Len(T) = Len(old)
            /\ \A i \in DOMAIN old :
                  /\ ById(T, old[i].id) = transformMarkers(<<old[i]>>, diffs)[1]
                  /\ ById(T, old[i].id) = Transformed(old[i])
            /\ AsSet(transformMarkers(Reverse(old), diffs)) = AsSet(T)
            /\ [i \in DOMAIN T |-> T[i].id] = [i \in DOMAIN old |-> SortByStart(old)[i].id]
            /\ SubSeq(markers, 1, Len(old)) = T

\* a pass with an Inserted and a Deleted span over a list that is not in the order
\* of start and holds two enabled markers, both of which the pass changed
C30_Witness ==
    /\ AfterPass
    /\ \E a, b \in DOMAIN diffs : IsInsert(diffs, a) /\ IsDelete(diffs, b)
    /\ \E i, j \in DOMAIN old :
        /\ i < j
        /\ old[i].start > old[j].start
        /\ old[i].enabled /\ old[j].enabled
        /\ ById(markers, old[i].id) # old[i]
        /\ ById(markers, old[j].id) # old[j]

\* ---- the markers of one pass

\* C31: the markers that one call of addInsertionMarkers appends follow op order and
\* are pairwise disjoint: each one starts strictly after the end of the one appended
\* before it.
C31_BornMarkersDisjoint ==
    npass >= 1 =>
        /\ \A j \in (Len(old) + 1)..(Len(markers) - 1) :
              /\ markers[j].end < markers[j + 1].start
              /\ markers[j].id < markers[j + 1].id
        /\ \A k, l \in DOMAIN diffs :
              (k < l /\ IsInsert(diffs, k) /\ IsInsert(diffs, l)) =>
                  /\ BornFor(k).end < BornFor(l).start
                  /\ Disjoint(BornFor(k), BornFor(l))

\* a pass with two Inserted spans directly behind one another, over a list that
\* held a marker already
C31_Witness ==
    /\ AfterPass
    /\ old # <<>>
    /\ \E k \in DOMAIN diffs :
        /\ k < Len(diffs)
        /\ IsInsert(diffs, k) /\ IsInsert(diffs, k + 1)
        /\ BornFor(k + 1).start = BornFor(k).end + 1

\* op k is a Deleted span that covers the whole region marker o has when it is reached
FullCover(o, k) ==
    LET a == Walk(o, diffs, k - 1)
    IN  /\ IsDelete(diffs, k)
        /\ a.index <= a.m.start
        /\ a.index + SpanLen(diffs, k) - 1 >= a.m.end

\* C32: in transformMarkers a marker of length >= 1 has length >= 1 after every
\* Deleted span of length >= 1, so that the 'length <= 0, disable' branch of
\* Marker.contract is never taken; a marker is disabled by the full-cover case
\* (c <= start and delEnd >= end) and by nothing else.
C32_ContractNeverDisables ==
    npass >= 1 =>
        \A o \in Enabled(old) : \A k \in DOMAIN diffs :
            LET a == Walk(o, diffs, k - 1)
                b == Walk(o, diffs, k)
            IN  /\ MLength(a.m) >= 1
                /\ MLength(b.m) >= 1
                /\ SpanLen(diffs, k) >= 1
                /\ FullCover(o, k) => ~b.m.enabled
                /\ ~FullCover(o, k) => b.m.enabled = a.m.enabled

\* a deletion that is no full cover left an enabled marker with one character, and
\* another deletion of the pass covered a marker
C32_Witness ==
    /\ AfterPass
    /\ \E o \in Enabled(old) : \E k \in DOMAIN diffs :
        LET a == Walk(o, diffs, k - 1)
            b == Walk(o, diffs, k)
        IN  /\ IsDelete(diffs, k)
            /\ ~FullCover(o, k)
            /\ a.m.enabled
            /\ MLength(b.m) = 1
            /\ MLength(a.m) > 1
    /\ \E o \in Enabled(old) : \E k \in DOMAIN diffs :
        FullCover(o, k) /\ Walk(o, diffs, k - 1).m.enabled

\* ---- what the calls leave alone

\* C33: renderWithMarkers leaves its inputs unchanged: after the call the markers
\* list has the same members in the same order, each with the same start, end and
\* enabled, and text is the same; and no step of computeDeepDiff changes the
\* caller's revisions list.
C33_InputsUnchanged ==
    [][/\ revisions' = revisions
       /\ options' = options
       /\ (pc = "returned" /\ pc' = "rendered") =>
              /\ returned' = returned
              /\ text' = text]_vars

\* a call was rendered whose revisions were not all kept as they were given and whose
\* returned markers are not in the order of their starts
C33_Witness ==
    /\ pc = "rendered"
    /\ texts # revisions
    /\ \E i, j \in DOMAIN returned : i < j /\ returned[j].start < returned[i].start

====
